---- MODULE Spec2Model ----
(***************************************************************************)
(* A model of marrow (src/main.rs): the deck-list line parser parse_line,  *)
(* a character-level state machine, the deck builder generate_deck_data /  *)
(* SaveState::new_for_deck, and main's read-parse-collect-write loop.      *)
(*                                                                         *)
(* A line is a sequence of characters, each a one-character string.  Two   *)
(* specifications share the definitions:                                   *)
(*   SpecParse  one call of parse_line, scanned character by character,    *)
(*              on every line over Alphabet up to MaxLen characters;       *)
(*   Spec       a run of main on every file of up to MaxLines deck lines.  *)
(***************************************************************************)
EXTENDS Integers, Sequences, FiniteSets, TLC

VARIABLES
    pc,           \* position of the running code
    string,       \* parse_line: its argument
    pos,          \* parse_line: 1-based position of the next character
    idx,          \* parse_line: byte offset of the next character (char_indices)
    parserstate,  \* parse_line: ParserState
    number_str,   \* parse_line: the quantity buffer
    name,         \* parse_line: the name buffer
    ret,          \* parse_line: what the call returned, or how it ended
    input,        \* main: the lines of the input file
    reader,       \* main: the lines not read yet
    line_idx,     \* main: line counter
    cards,        \* main: Vec<(i64, CustomDeckState)>
    errors,       \* main: Vec<AtRow>
    output,       \* main: the documents written to the output path
    stderr        \* main: the messages printed

parse_vars == <<string, pos, idx, parserstate, number_str, name, ret>>
main_vars == <<input, reader, line_idx, cards, errors, output, stderr>>
vars == <<pc, string, pos, idx, parserstate, number_str, name, ret,
          input, reader, line_idx, cards, errors, output, stderr>>

---------------------------------------------------------------------------
(* Bounds *)

MaxLen == 4
MaxLines == 2

---------------------------------------------------------------------------
(* Characters and strings *)

Digits == {"0", "1", "2", "3", "4", "5", "6", "7", "8", "9"}

IsDigit(ch) == ch \in Digits

\* char::is_whitespace, as used by str::trim, on the characters of the model
IsWhitespace(ch) == ch \in {" ", "\t", "\n", "\r"}

\* the number of bytes of a character in UTF-8: char_indices yields byte offsets
len_utf8(ch) == IF ch = "ä" THEN 2 ELSE 1

DigitVal(ch) ==
    CASE ch = "0" -> 0 [] ch = "1" -> 1 [] ch = "2" -> 2 [] ch = "3" -> 3
      [] ch = "4" -> 4 [] ch = "5" -> 5 [] ch = "6" -> 6 [] ch = "7" -> 7
      [] ch = "8" -> 8 [] ch = "9" -> 9

RECURSIVE trim_start(_)
trim_start(s) ==
    IF s # <<>> /\ IsWhitespace(Head(s)) THEN trim_start(Tail(s)) ELSE s

RECURSIVE trim_end(_)
trim_end(s) ==
    IF s # <<>> /\ IsWhitespace(s[Len(s)])
    THEN trim_end(SubSeq(s, 1, Len(s) - 1))
    ELSE s

\* str::trim
trim(s) == trim_end(trim_start(s))

\* str::replace for a one-character pattern; to is a (possibly empty) string
RECURSIVE replace(_, _, _)
replace(s, from, to) ==
    IF s = <<>> THEN <<>>
    ELSE (IF Head(s) = from THEN to ELSE <<Head(s)>>) \o replace(Tail(s), from, to)

---------------------------------------------------------------------------
(* i64::from_str on the quantity buffer (main.rs:375) *)

I64MaxDigits == <<9, 2, 2, 3, 3, 7, 2, 0, 3, 6, 8, 5, 4, 7, 7, 5, 8, 0, 7>>

RECURSIVE StripZeros(_)
StripZeros(s) ==
    IF s # <<>> /\ Head(s) = "0" THEN StripZeros(Tail(s)) ELSE s

\* a and b are digit sequences of the same length: a > b
RECURSIVE DigitsGreater(_, _)
DigitsGreater(a, b) ==
    IF a = <<>> THEN FALSE
    ELSE IF Head(a) # Head(b) THEN Head(a) > Head(b)
    ELSE DigitsGreater(Tail(a), Tail(b))

\* the digits denote a number above i64::MAX
PosOverflow(s) ==
    LET d == StripZeros(s) IN
    \/ Len(d) > Len(I64MaxDigits)
    \/ /\ Len(d) = Len(I64MaxDigits)
       /\ DigitsGreater([i \in 1..Len(d) |-> DigitVal(d[i])], I64MaxDigits)

RECURSIVE DecimalValue(_)
DecimalValue(s) ==
    IF s = <<>> THEN 0
    ELSE DecimalValue(SubSeq(s, 1, Len(s) - 1)) * 10 + DigitVal(s[Len(s)])

\* str::parse::<i64>: Err on the empty string, on a non-digit and on overflow
\* (a leading sign is accepted by the library; no sign can enter the buffer)
ParseI64(s) ==
    IF s = <<>> THEN [ok |-> FALSE, kind |-> "Empty"]
    ELSE IF \E i \in 1..Len(s) : ~IsDigit(s[i])
         THEN [ok |-> FALSE, kind |-> "InvalidDigit"]
    ELSE IF PosOverflow(s) THEN [ok |-> FALSE, kind |-> "PosOverflow"]
    ELSE [ok |-> TRUE, value |-> DecimalValue(s)]

---------------------------------------------------------------------------
(* parse_line (main.rs:315-378) *)

\* the expected lists of the two error sites (the source writes the separator
\* between backquotes, which a string of this module cannot hold)
ExpectedNumbering ==
    <<"x (number separator)", "a number", "a space", "tab">>

ExpectedExing == <<"x (number separator)", "space", "tab">>

UnexpectedChar(obtained, expected) ==
    [obtained |-> obtained, expected |-> expected]

AtColumn(error, column) == [error |-> error, column |-> column]

NoRet == [kind |-> "none"]

\* the column reported for the character at byte offset i
ErrColumn(i) == i + 1

get_filegarden_link(nm) ==
    <<"https://file.garden/ZJSEzoaUL3bz8vYK/bloodlesscards/">>
        \o replace(replace(nm, " ", <<>>), "ä", <<"a">>)
        \o <<".png">>

\* the CustomDeckState built for a trimmed name
CardData(nm) ==
    [face_url |-> get_filegarden_link(nm),
     back_url |-> "https://file.garden/ZJSEzoaUL3bz8vYK/bloodlesscards/00%20back.png",
     num_width |-> 1,
     num_height |-> 1,
     back_is_hidden |-> TRUE,
     unique_back |-> FALSE,
     type |-> 0]

\* the Numbering arm of the match, on frame f and character ch at byte offset i
NumberingArm(f, ch, i) ==
    IF IsDigit(ch) THEN [f EXCEPT !.number_str = Append(@, ch)]
    ELSE IF ch \in {" ", "\t"} THEN [f EXCEPT !.parserstate = "Exing"]
    ELSE IF ch = "x" THEN [f EXCEPT !.parserstate = "Naming"]
    ELSE [f EXCEPT !.ret =
            [kind |-> "Err",
             err |-> AtColumn(UnexpectedChar(ch, ExpectedNumbering), ErrColumn(i))]]

\* the Exing arm changed: its error reports the expected list of Numbering
ExingArm_NumberingList(f, ch, i) ==
    IF ch \in {" ", "\t"} THEN f
    ELSE IF ch = "x" THEN [f EXCEPT !.parserstate = "Naming"]
    ELSE [f EXCEPT !.ret =
            [kind |-> "Err",
             err |-> AtColumn(UnexpectedChar(ch, ExpectedNumbering), ErrColumn(i))]]

\* the Exing arm changed: a digit after blanks resumes the quantity
ExingArm_ResumesNumber(f, ch, i) ==
    IF ch \in {" ", "\t"} THEN f
    ELSE IF IsDigit(ch)
         THEN [f EXCEPT !.parserstate = "Numbering", !.number_str = Append(@, ch)]
    ELSE IF ch = "x" THEN [f EXCEPT !.parserstate = "Naming"]
    ELSE [f EXCEPT !.ret =
            [kind |-> "Err",
             err |-> AtColumn(UnexpectedChar(ch, ExpectedExing), ErrColumn(i))]]

\* the Exing arm
ExingArm(f, ch, i) ==
    IF ch \in {" ", "\t"} THEN f
    ELSE IF ch = "x" THEN [f EXCEPT !.parserstate = "Naming"]
    ELSE [f EXCEPT !.ret =
            [kind |-> "Err",
             err |-> AtColumn(UnexpectedChar(ch, ExpectedExing), ErrColumn(i))]]

\* the Naming arm changed: a blank inside the name is dropped
NamingArm_DropsBlank(f, ch) ==
    IF ch \in {" ", "\t"} THEN f ELSE [f EXCEPT !.name = Append(@, ch)]

\* the Naming arm
NamingArm(f, ch) == [f EXCEPT !.name = Append(@, ch)]

\* one iteration of the for loop
ScanChar(f, ch, i) ==
    CASE f.parserstate = "Numbering" -> NumberingArm(f, ch, i)
      [] f.parserstate = "Exing" -> ExingArm(f, ch, i)
      [] f.parserstate = "Naming" -> NamingArm(f, ch)

\* the code after the loop: trim, build the card, parse the quantity
Finish(f) ==
    LET nm == trim(f.name)
        card_data == CardData(nm)
        n == ParseI64(f.number_str)
    IN IF n.ok
       THEN [kind |-> "Ok", amt |-> n.value, card |-> card_data]
       ELSE [kind |-> "panic", msg |-> "couldn't parse number", cause |-> n.kind]

StartFrame ==
    [parserstate |-> "Numbering", number_str |-> <<>>, name |-> <<>>, ret |-> NoRet]

RECURSIVE ScanFrom(_, _, _, _)
ScanFrom(f, s, p, i) ==
    IF p > Len(s) THEN Finish(f)
    ELSE LET g == ScanChar(f, s[p], i) IN
         IF g.ret.kind = "Err" THEN g.ret
         ELSE ScanFrom(g, s, p + 1, i + len_utf8(s[p]))

\* the whole call
parse_line(s) == ScanFrom(StartFrame, s, 1, 0)

---------------------------------------------------------------------------
(* Inputs *)

Alphabet == {"0", "2", " ", "\t", "x", "K", "ä"}

RECURSIVE StringsUpTo(_)
StringsUpTo(n) ==
    IF n = 0 THEN {<<>>}
    ELSE LET shorter == StringsUpTo(n - 1) IN
         shorter \cup {Append(s, c) : s \in {t \in shorter : Len(t) = n - 1},
                                      c \in Alphabet}

\* lines outside the exhaustive set: a quantity of i64::MAX + 1, a quantity one
\* digit longer than i64::MAX, names with a two-byte character, a carriage
\* return.  (A quantity between 2^31 and i64::MAX parses, to a value the model
\* checker's integers cannot hold: no input of the model has one.)
ExtraBodies ==
    { <<"9","2","2","3","3","7","2","0","3","6","8","5","4","7","7","5","8","0","8","x","K">>,
      <<"1","0","0","0","0","0","0","0","0","0","0","0","0","0","0","0","0","0","0","0","x","K">>,
      <<"2","x"," ","ä"," ","K","ä">>,
      <<"2"," ","x"," ","K">>,
      <<"2","0","\t"," ","x","\t"," ","K"," ","x","2","\t">>,
      <<"0","2"," ","\t","2","x","K">>,
      <<" ","\t"," ","x","K","K">>,
      <<"2","ä","x","K">>,
      <<"2"," ","ä","x">>,
      <<"ä">>,
      <<"x"," ","G","o","b","l","i","n">>,
      <<"2","x","K","n","i","g","h","t">>,
      <<"2","x"," ","K","n","i","g","h","t">>,
      <<"1","x","K","\r">> }

\* what read_line can hand to parse_line: a non-empty string whose only
\* newline, if any, is its last character
ParseInputs ==
    LET bodies == StringsUpTo(MaxLen) \cup ExtraBodies IN
    (bodies \ {<<>>}) \cup {Append(b, "\n") : b \in bodies}

---------------------------------------------------------------------------
(* SpecParse: one call of parse_line, one loop iteration per step *)

Frame ==
    [parserstate |-> parserstate, number_str |-> number_str, name |-> name,
     ret |-> ret]

IdleParse ==
    /\ string = <<>>
    /\ pos = 1
    /\ idx = 0
    /\ parserstate = "Numbering"
    /\ number_str = <<>>
    /\ name = <<>>
    /\ ret = NoRet

IdleMain ==
    /\ input = <<>>
    /\ reader = <<>>
    /\ line_idx = 0
    /\ cards = <<>>
    /\ errors = <<>>
    /\ output = <<>>
    /\ stderr = <<>>

InitParse ==
    /\ pc = "scan"
    /\ string \in ParseInputs
    /\ pos = 1
    /\ idx = 0
    /\ parserstate = StartFrame.parserstate
    /\ number_str = StartFrame.number_str
    /\ name = StartFrame.name
    /\ ret = StartFrame.ret
    /\ IdleMain

\* one iteration of `for (idx, char) in string.char_indices()`
Loop ==
    /\ pc = "scan"
    /\ pos <= Len(string)
    /\ LET g == ScanChar(Frame, string[pos], idx) IN
       /\ parserstate' = g.parserstate
       /\ number_str' = g.number_str
       /\ name' = g.name
       /\ ret' = g.ret
       /\ pc' = IF g.ret.kind = "Err" THEN "returned" ELSE "scan"
    /\ pos' = pos + 1
    /\ idx' = idx + len_utf8(string[pos])
    /\ UNCHANGED <<string, input, reader, line_idx, cards, errors, output, stderr>>

\* the iterator is exhausted: the code after the loop
AfterLoop ==
    /\ pc = "scan"
    /\ pos > Len(string)
    /\ ret' = Finish(Frame)
    /\ pc' = IF ret'.kind = "panic" THEN "panic" ELSE "returned"
    /\ UNCHANGED <<string, pos, idx, parserstate, number_str, name,
                   input, reader, line_idx, cards, errors, output, stderr>>

NextParse == Loop \/ AfterLoop

SpecParse == InitParse /\ [][NextParse]_vars

---------------------------------------------------------------------------
(* generate_deck_data and SaveState::new_for_deck (main.rs:185-313) *)

Guids == {"g1", "g2"}

None == <<>>

Some(x) == <<x>>

CardIdStride == 100

DefaultTransform ==
    [posX |-> "0.0", posY |-> "0.0", posZ |-> "0.0",
     rotX |-> "0.0", rotY |-> "0.0", rotZ |-> "0.0",
     scaleX |-> "1.0", scaleY |-> "1.0", scaleZ |-> "1.0"]

DefaultVector3 == [x |-> "0.0", y |-> "0.0", z |-> "0.0"]

Grey == [r |-> "0.713235259", g |-> "0.713235259", b |-> "0.713235259"]

EmptyMap == <<>>

\* HashMap::insert changed: a card already stored under another key is not
\* stored again
HashMapInsert_OncePerCard(hm, k, v) ==
    IF \E x \in DOMAIN hm : hm[x] = v THEN hm
    ELSE [x \in (DOMAIN hm) \cup {k} |-> IF x = k THEN v ELSE hm[x]]

\* HashMap::insert
HashMapInsert(hm, k, v) ==
    [x \in (DOMAIN hm) \cup {k} |-> IF x = k THEN v ELSE hm[x]]

\* the deck index changed: enumerate()'s own position, from 0
DeckIndex_ZeroBased(i) == i

\* the deck index of the element at enumerate() position i (from 0)
DeckIndex(i) == i + 1

\* the loop changed to the inclusive range 0..=amt
Copies_Inclusive(amt) == IF amt >= 0 THEN amt + 1 ELSE 0

\* the number of iterations of `for _ in 0..amt`
Copies(amt) == IF amt > 0 THEN amt ELSE 0

\* the ObjectState changed: the copy's own map is keyed by the card id
CardObject_KeyedById(guid, id, index, card) ==
    [guid |-> guid, name |-> "CardCustom", transform |-> DefaultTransform,
     nickname |-> "", description |-> "", gm_notes |-> "",
     alt_look_angle |-> DefaultVector3, color_difuse |-> Grey,
     layout_group_sort_index |-> 0, value |-> 0, locked |-> FALSE,
     grid |-> TRUE, snap |-> TRUE, ignore_fow |-> FALSE,
     measure_movement |-> FALSE, drag_selectable |-> TRUE, autoraise |-> TRUE,
     sticky |-> TRUE, tooltip |-> TRUE, grid_projection |-> FALSE,
     hide_when_face_down |-> TRUE, hands |-> TRUE, card_id |-> Some(id),
     sideways_card |-> FALSE, deck_ids |-> None,
     custom_deck |-> HashMapInsert(EmptyMap, id, card),
     lua_script |-> "", lua_script_state |-> "", xml_ui |-> "",
     contained_objects |-> None]

\* the ObjectState changed: the nickname is a second use of the generated guid
CardObject_GuidNickname(guid, id, index, card) ==
    [guid |-> guid, name |-> "CardCustom", transform |-> DefaultTransform,
     nickname |-> guid, description |-> "", gm_notes |-> "",
     alt_look_angle |-> DefaultVector3, color_difuse |-> Grey,
     layout_group_sort_index |-> 0, value |-> 0, locked |-> FALSE,
     grid |-> TRUE, snap |-> TRUE, ignore_fow |-> FALSE,
     measure_movement |-> FALSE, drag_selectable |-> TRUE, autoraise |-> TRUE,
     sticky |-> TRUE, tooltip |-> TRUE, grid_projection |-> FALSE,
     hide_when_face_down |-> TRUE, hands |-> TRUE, card_id |-> Some(id),
     sideways_card |-> FALSE, deck_ids |-> None,
     custom_deck |-> HashMapInsert(EmptyMap, index, card),
     lua_script |-> "", lua_script_state |-> "", xml_ui |-> "",
     contained_objects |-> None]

\* the ObjectState pushed for one copy of a card
CardObject(guid, id, index, card) ==
    [guid |-> guid,
     name |-> "CardCustom",
     transform |-> DefaultTransform,
     nickname |-> "",
     description |-> "",
     gm_notes |-> "",
     alt_look_angle |-> DefaultVector3,
     color_difuse |-> Grey,
     layout_group_sort_index |-> 0,
     value |-> 0,
     locked |-> FALSE,
     grid |-> TRUE,
     snap |-> TRUE,
     ignore_fow |-> FALSE,
     measure_movement |-> FALSE,
     drag_selectable |-> TRUE,
     autoraise |-> TRUE,
     sticky |-> TRUE,
     tooltip |-> TRUE,
     grid_projection |-> FALSE,
     hide_when_face_down |-> TRUE,
     hands |-> TRUE,
     card_id |-> Some(id),
     sideways_card |-> FALSE,
     deck_ids |-> None,
     custom_deck |-> HashMapInsert(EmptyMap, index, card),
     lua_script |-> "",
     lua_script_state |-> "",
     xml_ui |-> "",
     contained_objects |-> None]

\* the outer loop changed: the card is stored in the map inside the inner loop,
\* so only when a copy is made
RECURSIVE DeckLoop_InsertInLoop(_, _, _, _)
DeckLoop_InsertInLoop(deck, i, acc, guids) ==
    IF i >= Len(deck) THEN acc
    ELSE LET amt == deck[i + 1][1]
             card == deck[i + 1][2]
             index == DeckIndex(i)
             id == index * CardIdStride
             n == Copies(amt)
             made == Len(acc.contained_objects)
         IN DeckLoop_InsertInLoop(deck, i + 1,
                [card_ids |-> acc.card_ids \o [k \in 1..n |-> id],
                 custom_deck |-> IF n > 0
                                 THEN HashMapInsert(acc.custom_deck, index, card)
                                 ELSE acc.custom_deck,
                 contained_objects |->
                     acc.contained_objects
                         \o [k \in 1..n |-> CardObject(guids[made + k], id, index, card)]],
                guids)

\* the outer loop from enumerate() position i on; guids[k] is what the k-th
\* call of generate_guid returns
RECURSIVE DeckLoop(_, _, _, _)
DeckLoop(deck, i, acc, guids) ==
    IF i >= Len(deck) THEN acc
    ELSE LET amt == deck[i + 1][1]
             card == deck[i + 1][2]
             index == DeckIndex(i)
             id == index * CardIdStride
             n == Copies(amt)
             made == Len(acc.contained_objects)
         IN DeckLoop(deck, i + 1,
                [card_ids |-> acc.card_ids \o [k \in 1..n |-> id],
                 custom_deck |-> HashMapInsert(acc.custom_deck, index, card),
                 contained_objects |->
                     acc.contained_objects
                         \o [k \in 1..n |-> CardObject(guids[made + k], id, index, card)]],
                guids)

generate_deck_data(deck, guids) ==
    DeckLoop(deck, 0,
             [card_ids |-> <<>>, custom_deck |-> EmptyMap, contained_objects |-> <<>>],
             guids)

RECURSIVE TotalCopies(_)
TotalCopies(deck) ==
    IF deck = <<>> THEN 0 ELSE Copies(Head(deck)[1]) + TotalCopies(Tail(deck))

\* the number of calls of generate_guid in one new_for_deck
GuidCalls(deck) == TotalCopies(deck) + 1

new_for_deck(deck, guids) ==
    LET data == generate_deck_data(deck, guids)
        object_state ==
            [guid |-> guids[Len(data.contained_objects) + 1],
             name |-> "Deck",
             transform |-> [DefaultTransform EXCEPT !.rotY = "180.0"],
             nickname |-> "",
             description |-> "",
             gm_notes |-> "",
             alt_look_angle |-> DefaultVector3,
             color_difuse |-> Grey,
             layout_group_sort_index |-> 0,
             value |-> 0,
             locked |-> FALSE,
             grid |-> TRUE,
             snap |-> TRUE,
             ignore_fow |-> FALSE,
             measure_movement |-> FALSE,
             drag_selectable |-> TRUE,
             autoraise |-> TRUE,
             sticky |-> TRUE,
             tooltip |-> TRUE,
             grid_projection |-> FALSE,
             hide_when_face_down |-> TRUE,
             hands |-> FALSE,
             card_id |-> None,
             sideways_card |-> FALSE,
             deck_ids |-> Some(data.card_ids),
             custom_deck |-> data.custom_deck,
             lua_script |-> "",
             lua_script_state |-> "",
             xml_ui |-> "",
             contained_objects |-> Some(data.contained_objects)]
    IN [save_name |-> "",
        date |-> "",
        version_number |-> "",
        game_mode |-> "",
        game_type |-> "",
        game_complexity |-> "",
        tags |-> <<>>,
        gravity |-> "0.5",
        play_area |-> "0.5",
        table |-> "",
        sky |-> "",
        note |-> "",
        tab_states |-> EmptyMap,
        lua_script |-> "",
        lua_script_state |-> "",
        xml_ui |-> "",
        object_states |-> <<object_state>>]

---------------------------------------------------------------------------
(* Error rendering (main.rs:400-437) *)

AtRow(column, row) == [column |-> column, row |-> row]

\* impl Display for Error: the obtained character, then the expected list
Display_Error(e) ==
    <<"Obtained character ", e.obtained, ", expected one of the following: ",
      e.expected>>

\* impl Display for AtRow: the text of the format string with its three
\* arguments in place
Display_AtRow(x) ==
    <<"Error at line ", x.column.column, ", column ", x.row, ": ",
      Display_Error(x.column.error)>>

---------------------------------------------------------------------------
(* Spec: a run of main (main.rs:147-183) *)

DeckBodies ==
    { <<"3","x"," ","O","g","r","e">>,
      <<"1","x"," ","D","o","n","k","e","y">>,
      <<"1","x","O","g","r","e">>,
      <<"0","x"," ","K">>,
      <<"3"," ","O","g","r","e">>,
      <<"2">>,
      <<"x"," ","G","o","b","l","i","n">>,
      <<>> }

\* the files of exactly n lines: every line ends with a newline, except that
\* the last line may be a non-empty line without one
RECURSIVE FilesOf(_)
FilesOf(n) ==
    IF n = 0 THEN {<<>>}
    ELSE LET terminated == {Append(b, "\n") : b \in DeckBodies} IN
         {<<l>> \o f : l \in terminated, f \in FilesOf(n - 1) \ {<<>>}}
            \cup (IF n = 1
                  THEN {<<l>> : l \in terminated \cup (DeckBodies \ {<<>>})}
                  ELSE {})

Files == UNION {FilesOf(n) : n \in 0..MaxLines}

\* the test changed: the document is written whatever was collected
errors_is_empty_Always(e) == TRUE

\* errors.is_empty() (main.rs:171)
errors_is_empty(e) == e = <<>>

\* serde_json::to_string_pretty: the document as handed to the writer (the
\* text layout is outside the model)
to_string_pretty(a) == a

Init ==
    /\ pc = "open"
    /\ input \in Files
    /\ reader = input
    /\ line_idx = 0
    /\ cards = <<>>
    /\ errors = <<>>
    /\ output = <<>>
    /\ stderr = <<>>
    /\ IdleParse

\* File::open(cli.input).unwrap()
Open ==
    /\ pc = "open"
    /\ pc' = "read"
    /\ UNCHANGED <<parse_vars, main_vars>>

OpenFail ==
    /\ pc = "open"
    /\ pc' = "panic"
    /\ UNCHANGED <<parse_vars, main_vars>>

\* one iteration of the loop in which read_line returns a line
ReadLine ==
    /\ pc = "read"
    /\ reader # <<>>
    /\ line_idx' = line_idx + 1
    /\ reader' = Tail(reader)
    /\ LET r == parse_line(Head(reader)) IN
       /\ cards' = IF r.kind = "Ok" THEN Append(cards, <<r.amt, r.card>>) ELSE cards
       /\ errors' = IF r.kind = "Err"
                    THEN Append(errors, AtRow(r.err, line_idx'))
                    ELSE errors
       /\ pc' = IF r.kind = "panic" THEN "panic" ELSE "read"
    /\ UNCHANGED <<parse_vars, input, output, stderr>>

\* read_line returns Ok(0): break
ReadEof ==
    /\ pc = "read"
    /\ reader = <<>>
    /\ line_idx' = line_idx + 1
    /\ pc' = "collected"
    /\ UNCHANGED <<parse_vars, input, reader, cards, errors, output, stderr>>

\* read_line returns Err: panic!("Couldn't read line ...")
ReadFail ==
    /\ pc = "read"
    /\ line_idx' = line_idx + 1
    /\ pc' = "panic"
    /\ UNCHANGED <<parse_vars, input, reader, cards, errors, output, stderr>>

\* the errors.is_empty() branch, the write succeeding
WriteOutput ==
    /\ pc = "collected"
    /\ errors_is_empty(errors)
    /\ \E guids \in [1..GuidCalls(cards) -> Guids] :
          output' = Append(output, to_string_pretty(new_for_deck(cards, guids)))
    /\ pc' = "done"
    /\ UNCHANGED <<parse_vars, input, reader, line_idx, cards, errors, stderr>>

\* the errors.is_empty() branch, an unwrap() failing: the model records no
\* document (what a failed write leaves at the path is the file system's)
WriteFail ==
    /\ pc = "collected"
    /\ errors_is_empty(errors)
    /\ pc' = "panic"
    /\ UNCHANGED <<parse_vars, main_vars>>

\* the else branch: every error printed, each followed by an empty line
ReportErrors ==
    /\ pc = "collected"
    /\ ~errors_is_empty(errors)
    /\ stderr' = [k \in 1..(2 * Len(errors)) |->
                    IF k % 2 = 1 THEN Display_AtRow(errors[(k + 1) \div 2]) ELSE <<>>]
    /\ pc' = "done"
    /\ UNCHANGED <<parse_vars, input, reader, line_idx, cards, errors, output>>

Next ==
    \/ Open
    \/ OpenFail
    \/ ReadLine
    \/ ReadEof
    \/ ReadFail
    \/ WriteOutput
    \/ WriteFail
    \/ ReportErrors

Spec == Init /\ [][Next]_vars

---------------------------------------------------------------------------
(* The shape of a line, read off the line itself (not off the parser) *)

\* the number of leading digits
NumDigits(s) ==
    Cardinality({k \in 1..Len(s) : \A j \in 1..k : IsDigit(s[j])})

\* the number of spaces and tabs that follow the leading digits
NumBlanks(s) ==
    LET d == NumDigits(s) IN
    Cardinality({k \in 1..(Len(s) - d) : \A j \in 1..k : s[d + j] \in {" ", "\t"}})

\* the 1-based character position after the digits and the blanks
SepPos(s) == NumDigits(s) + NumBlanks(s) + 1

HasSeparator(s) == SepPos(s) <= Len(s) /\ s[SepPos(s)] = "x"

QuantityText(s) == SubSeq(s, 1, NumDigits(s))

NameText(s) == SubSeq(s, SepPos(s) + 1, Len(s))

\* <digits> optional-whitespace 'x' optional-whitespace <name>
ValidLine(s) == NumDigits(s) >= 1 /\ HasSeparator(s)

ParseEnded == pc \in {"returned", "panic"}

---------------------------------------------------------------------------
(* Claims on parse_line, checked under SpecParse *)

\* C1: every valid line <digits> blanks 'x' blanks <name> parses, to exactly the
\* quantity its digits denote and the card of its trimmed name.
C1_ValidLineParses ==
    (ParseEnded /\ ValidLine(string)) =>
        /\ ret.kind = "Ok"
        /\ ret.amt = DecimalValue(QuantityText(string))
        /\ ret.card = CardData(trim(NameText(string)))

\* C2: every line that lacks the separator, or has another character where the
\* separator must be, is a syntax error at the column of that character.
C2_MalformedLineIsSyntaxError ==
    (ParseEnded /\ ~HasSeparator(string)) =>
        /\ ret.kind = "Err"
        /\ SepPos(string) <= Len(string) => ret.err.column = SepPos(string)

\* C6: a line that reaches the separator with an empty quantity buffer returns
\* an error value; the call does not panic.
C6_EmptyQuantityIsError ==
    (ParseEnded /\ NumDigits(string) = 0 /\ HasSeparator(string)) =>
        ret.kind = "Err"

\* C7: a scan that ends without a syntax error yields a pair: the conversion of
\* the quantity buffer succeeds.
C7_NoSyntaxErrorYieldsPair ==
    (ParseEnded /\ ret.kind # "Err") => ret.kind = "Ok"

---------------------------------------------------------------------------
(* What a run of main was given and what it wrote *)

Written == output # <<>>

Container == output[1].object_states[1]

Instances == Container.contained_objects[1]

\* the quantity and the identifier written on line i of the input file
Quantity(i) == DecimalValue(QuantityText(input[i]))

Identifier(i) == trim(NameText(input[i]))

DistinctIdentifiers == {Identifier(i) : i \in 1..Len(input)}

\* the rank, in first-seen order, of the identifier of line i
FirstSeenRank(i) ==
    LET first == CHOOSE j \in 1..i :
                    /\ Identifier(j) = Identifier(i)
                    /\ \A h \in 1..(j - 1) : Identifier(h) # Identifier(i)
    IN Cardinality({Identifier(h) : h \in 1..first})

RECURSIVE QuantitySum(_)
QuantitySum(i) == IF i = 0 THEN 0 ELSE QuantitySum(i - 1) + Quantity(i)

\* the instances of line i are Instances[BlockStart(i) + 1 .. BlockStart(i) + q_i]
BlockStart(i) == QuantitySum(i - 1)

LineFails(i) == parse_line(input[i]).kind # "Ok"

\* the line number of the k-th line that is a syntax error
ErrLine(k) ==
    CHOOSE i \in 1..Len(input) :
        /\ parse_line(input[i]).kind = "Err"
        /\ Cardinality({j \in 1..i : parse_line(input[j]).kind = "Err"}) = k

OgreDonkey ==
    << <<"3","x"," ","O","g","r","e","\n">>,
       <<"1","x"," ","D","o","n","k","e","y","\n">> >>

\* the values a rendered AtRow message shows after "line" and after "column"
ShownLine(msg) == msg[2]

ShownColumn(msg) == msg[4]

---------------------------------------------------------------------------
(* Claims on the builder and on main, checked under Spec *)

C5_BlockPerLine ==
    Written =>
        /\ Len(Instances) = QuantitySum(Len(input))
        /\ \A i \in 1..Len(input) : \A k \in 1..Quantity(i) :
              LET o == Instances[BlockStart(i) + k]
                  first == Instances[BlockStart(i) + 1]
              IN /\ {o.custom_deck[x] : x \in DOMAIN o.custom_deck}
                        = {CardData(Identifier(i))}
                 /\ [o EXCEPT !.guid = "g1"] = [first EXCEPT !.guid = "g1"]
        /\ \A i, j \in 1..Len(input) :
              (i # j /\ Quantity(i) > 0 /\ Quantity(j) > 0) =>
                  Instances[BlockStart(i) + 1].card_id
                      # Instances[BlockStart(j) + 1].card_id

C5_Witness ==
    /\ pc = "done"
    /\ Written
    /\ Len(input) = 2
    /\ Quantity(1) = 3
    /\ Quantity(2) = 1

\* C8: every line read adds one entry to cards or to errors, the errors are in
\* line order, and nothing is reported before the whole file is read.
C8_EveryLineCollected ==
    /\ Len(cards) + Len(errors) = Len(input) - Len(reader)
    /\ \A k \in 1..Len(errors) : \A l \in 1..Len(errors) :
          k < l => errors[k].row < errors[l].row
    /\ stderr # <<>> => reader = <<>>

C10_MessageShowsLineThenColumn ==
    stderr # <<>> =>
        \A k \in 1..Len(errors) :
            /\ ShownLine(stderr[2 * k - 1]) = ErrLine(k)
            /\ ShownColumn(stderr[2 * k - 1]) = SepPos(input[ErrLine(k)])

---------------------------------------------------------------------------
(* Claims on the builder, continued (Spec) *)

DeckIDs == Container.deck_ids[1]

\* the positions of the instances whose card id is that of line i
InstancesOfLine(i) ==
    {j \in 1..Len(Instances) : Instances[j].card_id = Some(i * CardIdStride)}

\* C11: a line of quantity 0 yields no instance and no entry of DeckIDs, and
\* still has its metadata record in the container's map.
C11_ZeroQuantityKeepsMetadata ==
    Written =>
        \A i \in 1..Len(input) :
            Quantity(i) = 0 =>
                /\ InstancesOfLine(i) = {}
                /\ \A j \in 1..Len(Instances) : i \notin DOMAIN Instances[j].custom_deck
                /\ \A j \in 1..Len(DeckIDs) : DeckIDs[j] # i * CardIdStride
                /\ i \in DOMAIN Container.custom_deck
                /\ Container.custom_deck[i] = CardData(Identifier(i))

C11_Witness ==
    /\ pc = "done"
    /\ Written
    /\ Len(input) = 2
    /\ Quantity(1) = 0
    /\ Quantity(2) = 3

\* a document with every generated guid blanked
EraseGuids(doc) ==
    LET deck == doc.object_states[1]
        inner == deck.contained_objects[1]
    IN [doc EXCEPT !.object_states =
            <<[deck EXCEPT
                 !.guid = "",
                 !.contained_objects =
                     Some([j \in 1..Len(inner) |-> [inner[j] EXCEPT !.guid = ""]])]>>]

\* the guids of a second run: every call of generate_guid returns g
SameGuid(g) == [k \in 1..GuidCalls(cards) |-> g]

\* C12: the document of this run and the document of another run on the same
\* input, whatever guids that run draws, are equal in every field but the guids.
C12_DeterministicUpToGuids ==
    Written =>
        /\ \A i \in 1..Len(input) :
              cards[i] = <<Quantity(i), CardData(Identifier(i))>>
        /\ \A g \in Guids :
              EraseGuids(to_string_pretty(new_for_deck(cards, SameGuid(g))))
                  = EraseGuids(output[1])

\* this run drew two different guids, so it differs from both second runs
C12_Witness ==
    /\ pc = "done"
    /\ Written
    /\ Len(Instances) >= 2
    /\ \E j, k \in 1..Len(Instances) : Instances[j].guid # Instances[k].guid
    /\ \A g \in Guids : output[1] # to_string_pretty(new_for_deck(cards, SameGuid(g)))

\* C16: DeckIDs is the sequence of the instances' card ids; an instance has one
\* metadata record, under key card_id / 100, the one the container stores under
\* that key; every key of the container is the position of an input line.
C16_ReferentialIntegrity ==
    Written =>
        /\ Len(DeckIDs) = Len(Instances)
        /\ \A j \in 1..Len(Instances) :
              LET o == Instances[j]
                  key == o.card_id[1] \div 100
              IN /\ o.card_id = Some(DeckIDs[j])
                 /\ o.card_id[1] % 100 = 0
                 /\ DOMAIN o.custom_deck = {key}
                 /\ key \in DOMAIN Container.custom_deck
                 /\ o.custom_deck[key] = Container.custom_deck[key]
                 /\ o.custom_deck[key] = CardData(Identifier(key))
        /\ DOMAIN Container.custom_deck \subseteq 1..Len(input)

C16_Witness ==
    /\ pc = "done"
    /\ Written
    /\ Len(input) = 2
    /\ Quantity(1) > 0
    /\ Quantity(2) > 0
    /\ Identifier(1) # Identifier(2)

---------------------------------------------------------------------------
(* Claims on the scan, step by step (SpecParse) *)

\* the step scans a character
Scanning == pc = "scan" /\ pos <= Len(string)

Blank(ch) == ch \in {" ", "\t"}

StateRank(st) ==
    CASE st = "Numbering" -> 1 [] st = "Exing" -> 2 [] st = "Naming" -> 3

\* C13: from Naming on, every character scanned is appended to the name as it
\* is, the state stays Naming and no syntax error is returned.
C13_NamingAbsorbs ==
    [][parserstate = "Naming" =>
          /\ parserstate' = "Naming"
          /\ ret'.kind # "Err"
          /\ number_str' = number_str
          /\ Scanning => name' = Append(name, string[pos])
          /\ ~Scanning => name' = name]_vars

C13_Witness ==
    /\ pc = "returned"
    /\ ret.kind = "Ok"
    /\ parserstate = "Naming"
    /\ \E a, b, c \in 1..Len(name) :
          name[a] = "x" /\ IsDigit(name[b]) /\ Blank(name[c]) /\ c < Len(name)

\* C14: in Exing a blank changes nothing, 'x' goes to Naming, any other
\* character (a digit too) is an error expecting exactly separator, space, tab;
\* in Numbering a character that is no digit, blank or 'x' is an error
\* expecting exactly separator, digit, space, tab.
C14_ExingAndNumberingErrors ==
    [][Scanning =>
          LET ch == string[pos] IN
          /\ (parserstate = "Exing" /\ Blank(ch)) =>
                /\ parserstate' = "Exing"
                /\ number_str' = number_str
                /\ name' = name
                /\ ret' = ret
                /\ pc' = "scan"
          /\ (parserstate = "Exing" /\ ch = "x") =>
                /\ parserstate' = "Naming"
                /\ number_str' = number_str
                /\ name' = name
                /\ pc' = "scan"
          /\ (parserstate = "Exing" /\ ~Blank(ch) /\ ch # "x") =>
                /\ pc' = "returned"
                /\ ret'.kind = "Err"
                /\ ret'.err.error.obtained = ch
                /\ Len(ret'.err.error.expected) = 3
                /\ {ret'.err.error.expected[k] : k \in 1..3}
                      = {"x (number separator)", "space", "tab"}
          /\ (parserstate = "Numbering" /\ ~IsDigit(ch) /\ ~Blank(ch) /\ ch # "x") =>
                /\ pc' = "returned"
                /\ ret'.kind = "Err"
                /\ ret'.err.error.obtained = ch
                /\ Len(ret'.err.error.expected) = 4
                /\ {ret'.err.error.expected[k] : k \in 1..4}
                      = {"x (number separator)", "a number", "a space", "tab"}]_vars

\* a digit met in Exing was refused
C14_Witness ==
    /\ pc = "returned"
    /\ ret.kind = "Err"
    /\ parserstate = "Exing"
    /\ IsDigit(ret.err.error.obtained)
    /\ number_str # <<>>

\* C15: the state only moves forward, Numbering, Exing, Naming; the quantity
\* buffer holds digits only and grows only in Numbering; the name buffer grows
\* only in Naming.
C15_ForwardOnly ==
    [][/\ StateRank(parserstate') >= StateRank(parserstate)
       /\ \A k \in 1..Len(number_str') : IsDigit(number_str'[k])
       /\ number_str' # number_str =>
             /\ parserstate = "Numbering"
             /\ parserstate' = "Numbering"
             /\ Scanning
             /\ number_str' = Append(number_str, string[pos])
       /\ name' # name =>
             /\ parserstate = "Naming"
             /\ Scanning
             /\ name' = Append(name, string[pos])]_vars

\* a line that went through the three states and filled both buffers
C15_Witness ==
    /\ pc = "returned"
    /\ ret.kind = "Ok"
    /\ parserstate = "Naming"
    /\ Len(number_str) >= 2
    /\ NumBlanks(string) >= 2
    /\ Len(name) >= 2

====
